---- MODULE Spec2Model ----
(***************************************************************************)
(* Model of datascrape.py: a two-stage crawl of the Racer X vault.         *)
(* Stage 1 (link discovery) fetches one listing page per (series, year)    *)
(* and collects dated-event links; stage 2 (page extraction) fetches every *)
(* collected link in sorted order, builds a metadata-prefixed frame from   *)
(* the first table of the page, and finally writes two flat files.         *)
(*                                                                         *)
(* A Python str is a sequence of one-character strings, so that the        *)
(* regular expressions, str.lower, str.title, str.strip and the string     *)
(* ordering used by sorted() are computed character by character.          *)
(***************************************************************************)
EXTENDS Integers, Sequences, FiniteSets, TLC

(***************************************************************************)
(* Characters and strings                                                  *)
(***************************************************************************)
\* Printable ASCII in code-point order (32..126).
Ascii == <<" ","!","\"","#","$","%","&","'","(",")","*","+",",","-",".","/","0","1","2","3","4","5","6","7","8","9",":",";","<","=",">","?","@","A","B","C","D","E","F","G","H","I","J","K","L","M","N","O","P","Q","R","S","T","U","V","W","X","Y","Z","[","backslash","]","^","_","backtick","a","b","c","d","e","f","g","h","i","j","k","l","m","n","o","p","q","r","s","t","u","v","w","x","y","z","{","|","}","~">>

\* ord(c), tabulated once
OrdTable == [c \in {Ascii[k] : k \in 1..Len(Ascii)} |->
               31 + (CHOOSE k \in 1..Len(Ascii) : Ascii[k] = c)]

Ord(c) == OrdTable[c]

Chr(n) == Ascii[n - 31]

\* \d
Digits == {Chr(n) : n \in 48..57}

IsDigit(c) == c \in Digits

UpperLetters == {Chr(n) : n \in 65..90}

LowerLetters == {Chr(n) : n \in 97..122}

IsUpper(c) == c \in UpperLetters

IsLower(c) == c \in LowerLetters

\* [A-Za-z]
IsAlpha(c) == IsUpper(c) \/ IsLower(c)

IsSpace(c) == c = " "

LowerChar(c) == IF IsUpper(c) THEN Chr(Ord(c) + 32) ELSE c

UpperChar(c) == IF IsLower(c) THEN Chr(Ord(c) - 32) ELSE c

\* str.lower()
Lower(s) == [k \in 1..Len(s) |-> LowerChar(s[k])]

\* str.title(): a cased character is upper-cased when the character before
\* it is not cased, lower-cased otherwise; other characters are kept.
Title(s) == [k \in 1..Len(s) |->
               IF IsAlpha(s[k])
               THEN IF k > 1 /\ IsAlpha(s[k-1]) THEN LowerChar(s[k]) ELSE UpperChar(s[k])
               ELSE s[k]]

\* str.replace(old, new) for single characters
Replace(s, old, new) == [k \in 1..Len(s) |-> IF s[k] = old THEN new ELSE s[k]]

\* str.strip()
Strip(s) ==
  LET keep == {k \in 1..Len(s) : ~IsSpace(s[k])}
  IN  IF keep = {} THEN <<>>
      ELSE LET lo == CHOOSE k \in keep : \A j \in keep : k <= j
               hi == CHOOSE k \in keep : \A j \in keep : k >= j
           IN  SubSeq(s, lo, hi)

\* str.startswith(prefix)
StartsWith(s, p) == Len(s) >= Len(p) /\ SubSeq(s, 1, Len(p)) = p

\* Python's str ordering: code point by code point, a proper prefix first.
StrLess(a, b) ==
  \E k \in 1..(Len(b)) :
     /\ k <= Len(a) + 1
     /\ \A j \in 1..(k-1) : a[j] = b[j]
     /\ (k = Len(a) + 1 \/ Ord(a[k]) < Ord(b[k]))

\* int -> decimal str, as the f-string formats a year
RECURSIVE Str(_)
Str(n) == IF n < 10 THEN <<Chr(48 + n)>> ELSE Str(n \div 10) \o <<Chr(48 + (n % 10))>>

\* int(str) for a string of decimal digits
RECURSIVE ToInt(_)
ToInt(s) == IF s = <<>> THEN 0
            ELSE 10 * ToInt(SubSeq(s, 1, Len(s) - 1)) + (Ord(s[Len(s)]) - 48)

\* as sorted, but with reverse=True
RECURSIVE sorted_reverse(_)
sorted_reverse(set) ==
  IF set = {} THEN <<>>
  ELSE LET greatest == CHOOSE x \in set : \A z \in set : z = x \/ StrLess(z, x)
       IN  <<greatest>> \o sorted_reverse(set \ {greatest})

\* sorted(set): ascending sequence of the elements of a set of strings
RECURSIVE sorted(_)
sorted(set) ==
  IF set = {} THEN <<>>
  ELSE LET least == CHOOSE x \in set : \A y \in set : y = x \/ StrLess(x, y)
       IN  <<least>> \o sorted(set \ {least})

\* set(list)
Range(seq) == {seq[k] : k \in 1..Len(seq)}

(***************************************************************************)
(* Program constants                                                       *)
(***************************************************************************)
BASE == <<"h","t","t","p","s",":","/","/","v","a","u","l","t",".","r","a","c","e","r","x","o","n","l","i","n","e",".","c","o","m">>

\* SERIES_MAP.keys(), in insertion order
SERIES_MAP == << <<"s","x">>, <<"m","x">> >>

FirstYear == 1974

\* number of seasons crawled (the source crawls 1974..2025)
NumYears == 2

YEARS == [k \in 1..NumYears |-> FirstYear + k - 1]

\* DataFrame cell for a missing value (None / NaN)
None == <<>>

(***************************************************************************)
(* Regular expressions                                                     *)
(***************************************************************************)
\* /\d{4}-\d{2}-\d{2}/ matches s at position i
DateAt(s, i) ==
  /\ i >= 1 /\ i + 11 <= Len(s)
  /\ s[i] = "/"
  /\ \A k \in (i+1)..(i+4) : IsDigit(s[k])
  /\ s[i+5] = "-"
  /\ \A k \in (i+6)..(i+7) : IsDigit(s[k])
  /\ s[i+8] = "-"
  /\ \A k \in (i+9)..(i+10) : IsDigit(s[k])
  /\ s[i+11] = "/"

\* re.search(r"/\d{4}-\d{2}-\d{2}/", s) is not None
DateSearch(s) == \E i \in 1..Len(s) : DateAt(s, i)

\* positions at which the date pattern matches
DatePositions(s) == {i \in 1..Len(s) : DateAt(s, i)}

\* end of the [^/]+ run that starts at position from: the position of the
\* next "/", or Len(s) + 1 when there is none
SegmentEnd(s, from) ==
  LET slashes == {k \in from..Len(s) : s[k] = "/"}
  IN  IF slashes = {} THEN Len(s) + 1
      ELSE CHOOSE k \in slashes : \A j \in slashes : k <= j

\* /\d{4}-\d{2}-\d{2}/([^/]+)/ matches s at i: a non-empty segment after
\* the date, closed by a "/"
ClassAt(s, i) ==
  /\ DateAt(s, i)
  /\ SegmentEnd(s, i + 12) > i + 12
  /\ SegmentEnd(s, i + 12) <= Len(s)

\* race_class: group 1 of the leftmost match, lower-cased, else ""
race_class(url) ==
  LET hits == {i \in DatePositions(url) : ClassAt(url, i)}
  IN  IF hits = {} THEN <<>>
      ELSE LET i == CHOOSE x \in hits : \A z \in hits : x <= z
           IN  Lower(SubSeq(url, i + 12, SegmentEnd(url, i + 12) - 1))

\* /\d{4}-\d{2}-\d{2}/[^/]+/([^/]+)/?$ matches s at i: two non-empty
\* segments after the date, then at most one "/" and the end of the string
VenueAt(s, i) ==
  /\ ClassAt(s, i)
  /\ LET j == SegmentEnd(s, i + 12)
         e == SegmentEnd(s, j + 1)
     IN  /\ e > j + 1
         /\ e >= Len(s)

\* venue_slug: group 1 of the leftmost match, '-' -> ' ', title-cased, else ""
venue_slug(url) ==
  LET hits == {i \in DatePositions(url) : VenueAt(url, i)}
  IN  IF hits = {} THEN <<>>
      ELSE LET i == CHOOSE x \in hits : \A z \in hits : x <= z
               j == SegmentEnd(url, i + 12)
           IN  Title(Replace(SubSeq(url, j + 1, SegmentEnd(url, j + 1) - 1), "-", " "))

\* the literal prefix of r"https://vault\.racerxonline\.com/(\d{4})/"
YearPrefix == BASE \o <<"/">>

\* https://vault\.racerxonline\.com/(\d{4})/ matches s at i
YearAt(s, i) ==
  LET p == Len(YearPrefix)
  IN  /\ i >= 1 /\ i + p + 4 <= Len(s)
      /\ SubSeq(s, i, i + p - 1) = YearPrefix
      /\ \A k \in (i+p)..(i+p+3) : IsDigit(s[k])
      /\ s[i+p+4] = "/"

\* the value inserted as column "year": [int] when m3 matches, None otherwise
year_guess(url) ==
  LET hits == {i \in 1..Len(url) : YearAt(url, i)}
  IN  IF hits = {} THEN None
      ELSE LET i == CHOOSE x \in hits : \A y \in hits : x <= y
           IN  <<ToInt(SubSeq(url, i + Len(YearPrefix), i + Len(YearPrefix) + 3))>>

\* end of the [A-Za-z]+ run that starts at position from (first position
\* that is not a letter, or Len(txt) + 1)
LettersEnd(txt, from) ==
  LET stops == {k \in from..Len(txt) : ~IsAlpha(txt[k])}
  IN  IF stops = {} THEN Len(txt) + 1
      ELSE CHOOSE k \in stops : \A j \in stops : k <= j

\* " \d{n}, \d{4}" matches txt at position b
DayYearAt(txt, b, n) ==
  /\ b + n + 6 <= Len(txt)
  /\ txt[b] = " "
  /\ \A k \in (b+1)..(b+n) : IsDigit(txt[k])
  /\ txt[b+n+1] = "," /\ txt[b+n+2] = " "
  /\ \A k \in (b+n+3)..(b+n+6) : IsDigit(txt[k])

\* [A-Za-z]+ \d{1,2}, \d{4} matches txt at position i
DateTextAt(txt, i) ==
  /\ IsAlpha(txt[i])
  /\ \E n \in 1..2 : DayYearAt(txt, LettersEnd(txt, i), n)

DateTextSearch(txt) == \E i \in 1..Len(txt) : DateTextAt(txt, i)

\* group(0) of the leftmost match
DateTextGroup(txt) ==
  LET hits == {i \in 1..Len(txt) : DateTextAt(txt, i)}
      i == CHOOSE x \in hits : \A z \in hits : x <= z
      b == LettersEnd(txt, i)
      n == CHOOSE x \in 1..2 : DayYearAt(txt, b, x)
  IN  SubSeq(txt, i, b + n + 6)

(***************************************************************************)
(* Link discovery                                                          *)
(***************************************************************************)
\* f"{BASE}/{year}/{series_slug}/races"
listing_url(year, series_slug) ==
  BASE \o <<"/">> \o Str(year) \o <<"/">> \o series_slug \o <<"/","r","a","c","e","s">>

\* "normalize relative links": the absolute form of an href, as a list of
\* zero or one URL (empty when the loop body executes `continue`)
full(href) ==
  IF href = <<>> THEN <<>>
  ELSE IF StartsWith(href, <<"/">>) THEN <<BASE \o href>>
  ELSE IF StartsWith(href, <<"h","t","t","p">>) THEN <<href>>
  ELSE <<>>

\* list_year_races applied to the fetched soup: hrefs is the list of the href
\* attributes of soup.select("a[href]") in document order
list_year_races(hrefs) ==
  sorted({u \in UNION {Range(full(hrefs[k])) : k \in 1..Len(hrefs)} : DateSearch(u)})

(***************************************************************************)
(* Data frames                                                             *)
(***************************************************************************)
InsertAt(seq, loc, x) == SubSeq(seq, 1, loc) \o <<x>> \o SubSeq(seq, loc + 1, Len(seq))

\* tables[0].copy() followed by df.columns = [str(c).strip() for c in df.columns]
first_table(tables) ==
  [columns |-> [k \in 1..Len(tables[1].columns) |-> Strip(tables[1].columns[k])],
   rows    |-> tables[1].rows,
   error   |-> FALSE]

\* df.insert(loc, column, value) with a scalar value; pandas raises
\* ValueError when the column already exists (error = TRUE, which the
\* later statements of the try block never clear)
insert(df, loc, column, value) ==
  IF df.error \/ column \in Range(df.columns)
  THEN [df EXCEPT !.error = TRUE]
  ELSE [columns |-> InsertAt(df.columns, loc, column),
        rows    |-> [r \in 1..Len(df.rows) |-> InsertAt(df.rows[r], loc, value)],
        error   |-> FALSE]

\* pd.concat(frames, ignore_index=True): columns in order of first
\* appearance, the rows of every frame in order, missing cells NaN
RECURSIVE concat_columns(_)
concat_columns(fs) ==
  IF fs = <<>> THEN <<>>
  ELSE LET before == concat_columns(SubSeq(fs, 1, Len(fs) - 1))
           mine   == fs[Len(fs)].columns
       IN  before \o SelectSeq(mine, LAMBDA c : c \notin Range(before))

RECURSIVE concat_rows(_, _)
concat_rows(fs, cols) ==
  IF fs = <<>> THEN <<>>
  ELSE LET f == fs[Len(fs)]
           at(c) == CHOOSE k \in 1..Len(f.columns) : f.columns[k] = c
           conv(row) == [c \in 1..Len(cols) |->
                           IF cols[c] \in Range(f.columns) THEN row[at(cols[c])] ELSE None]
       IN  concat_rows(SubSeq(fs, 1, Len(fs) - 1), cols)
             \o [r \in 1..Len(f.rows) |-> conv(f.rows[r])]

concat(fs) == [columns |-> concat_columns(fs), rows |-> concat_rows(fs, concat_columns(fs))]

\* pd.DataFrame(meta_rows): one row per dict, columns in key order
events_frame(ms) ==
  [columns |-> << <<"u","r","l">>, <<"t","i","t","l","e">>, <<"d","a","t","e">>, <<"c","l","a","s","s">>, <<"v","e","n","u","e">> >>,
   rows    |-> [k \in 1..Len(ms) |->
                  <<ms[k].url, ms[k].title, ms[k].date, ms[k].class, ms[k].venue>>]]

(***************************************************************************)
(* Page extraction                                                         *)
(***************************************************************************)
\* h = soup.find(["h1","h2"]); title = h.get_text(strip=True) if h else ""
\* soup.heading is the list of zero or one text of the first h1/h2
title_of(soup) == IF soup.heading = <<>> THEN <<>> ELSE Strip(soup.heading[1])

\* first text of soup.find_all(["h2","h3","p","div"]) holding "Month D, YYYY"
date_text_of(soup) ==
  LET hits == {k \in 1..Len(soup.texts) : DateTextSearch(soup.texts[k])}
  IN  IF hits = {} THEN <<>>
      ELSE DateTextGroup(soup.texts[CHOOSE k \in hits : \A j \in hits : k <= j])

\* the dict returned as meta
meta_of(url, soup) ==
  [url |-> url, title |-> title_of(soup), date |-> date_text_of(soup),
   class |-> race_class(url), venue |-> venue_slug(url)]

\* the six df.insert calls, in program order
add_metadata(df, url, soup) ==
  insert(insert(insert(insert(insert(insert(df,
    0, <<"e","v","e","n","t","_","u","r","l">>, url),
    1, <<"t","i","t","l","e">>, title_of(soup)),
    2, <<"d","a","t","e">>, date_text_of(soup)),
    3, <<"c","l","a","s","s">>, race_class(url)),
    4, <<"v","e","n","u","e">>, venue_slug(url)),
    5, <<"y","e","a","r">>, year_guess(url))

\* parse_result_page after get_soup returned soup and pd.read_html returned
\* tables: "none" is (None, None), "raise" an exception out of the body
parse_result_page(url, soup, tables) ==
  IF tables = <<>>
  THEN [kind |-> "none", meta |-> meta_of(url, soup),
        df |-> [columns |-> <<>>, rows |-> <<>>, error |-> FALSE]]
  ELSE LET df == add_metadata(first_table(tables), url, soup)
       IN  [kind |-> IF df.error THEN "raise" ELSE "frame",
            meta |-> meta_of(url, soup), df |-> df]

(***************************************************************************)
(* Inputs: what the site serves                                            *)
(***************************************************************************)
HrefEvent   == <<"/","2","0","2","5","-","0","5","-","1","0","/","4","5","0","s","x","/","r","i","c","e","-","e","c","c","l","e","s","-","s","t","a","d","i","u","m">>
HrefAbs     == <<"h","t","t","p","s",":","/","/","v","a","u","l","t",".","r","a","c","e","r","x","o","n","l","i","n","e",".","c","o","m","/","2","0","2","5","-","0","8","-","2","3","/","2","5","0","/","b","u","d","d","s","-","c","r","e","e","k">>
HrefNoVenue == <<"/","2","0","2","5","-","0","5","-","1","0","/","2","5","0","S","X">>
HrefSlash   == <<"/","2","0","2","3","-","0","1","-","0","7","/","4","5","0","s","x","/","a","-","b","/">>
HrefDotRel  == <<".","/","2","0","2","4","-","0","1","-","0","6","/","4","5","0","s","x","/","a","n","a","h","e","i","m">>
HrefNav     == <<"/","2","0","2","5","/","s","x","/","r","a","c","e","s">>
HrefAnchor  == <<"#","t","o","p">>

ListingPages ==
  { <<HrefNav, HrefEvent, <<>>, HrefAnchor>>,
    <<HrefAbs, HrefEvent, HrefDotRel>>,
    <<HrefSlash, HrefNoVenue>> }

TableRiders == [columns |-> << <<"F","i","n","i","s","h">>, <<" ","R","i","d","e","r"," ">> >>,
                rows    |-> << << <<"1">>, <<"T","o","m","a","c">> >>, << <<"2">>, <<"W","e","b","b">> >> >>]
TablePoints == [columns |-> << <<"P","o","s">>, <<"P","o","i","n","t","s">> >>, rows |-> << << <<"1">>, <<"2","5">> >> >>]
TableDated  == [columns |-> << <<"P","o","s">>, <<" ","d","a","t","e">> >>, rows |-> << << <<"1">>, <<"M","a","y"," ","1","0">> >> >>]
TableEmpty  == [columns |-> << <<"F","i","n","i","s","h">> >>, rows |-> <<>>]

ResultPages ==
  { [heading |-> << <<" ","S","a","l","t"," ","L","a","k","e"," ","C","i","t","y"," ">> >>,
     texts   |-> << <<"R","o","u","n","d"," ","1","7">>, <<"S","a","t","u","r","d","a","y"," ","M","a","y"," ","1","0",","," ","2","0","2","5"," ","4","5","0","S","X">> >>,
     tables  |-> <<TableRiders, TablePoints>>],
    [heading |-> <<>>, texts |-> <<>>, tables |-> <<TableDated>>],
    [heading |-> << <<"R","e","s","u","l","t","s">> >>, texts |-> << <<"A","u","g"," ","3",","," ","1","9","8","5">> >>, tables |-> <<TableEmpty>>],
    [heading |-> << <<"N","o","t"," ","F","o","u","n","d">> >>, texts |-> <<>>, tables |-> <<>>] }

NoSoup == [heading |-> <<>>, texts |-> <<>>, tables |-> <<>>]

\* exceptions get_soup can raise: raise_for_status, or the transport
Exceptions == {"HTTPError", "ConnectionError"}

(***************************************************************************)
(* main                                                                    *)
(***************************************************************************)
VARIABLES
  pc,           \* "crawl", "parse", "write", "done", "aborted"
  s, y,         \* positions of the two crawl loops in SERIES_MAP and YEARS
  all_links,    \* set of absolute URLs
  links,        \* last list returned by list_year_races
  urls,         \* sorted(all_links) as evaluated by the extraction loop
  i,            \* position of the extraction loop in urls (1-based)
  meta_rows, frames,
  requested,    \* URLs passed to SESSION.get, in order
  slept,        \* time.sleep(0.5) ran after the last request
  printed,      \* last message printed
  fetched,      \* last response: url, status, and the hrefs / soup served
  found,        \* number of links returned by list_year_races so far
  skipped,      \* number of "Skip"/"Error" lines printed by the crawl loop
  failed,       \* number of "Failed" lines printed by the extraction loop
  out_results, out_events   \* the two CSV files, <<>> while not written

vars == <<pc, s, y, all_links, links, urls, i, meta_rows, frames, requested,
          slept, printed, fetched, found, skipped, failed, out_results, out_events>>

Init ==
  /\ pc = "crawl" /\ s = 1 /\ y = 1
  /\ all_links = {} /\ links = <<>> /\ urls = <<>> /\ i = 1
  /\ meta_rows = <<>> /\ frames = <<>>
  /\ requested = <<>> /\ slept = FALSE /\ printed = <<>>
  /\ fetched = [url |-> <<>>, status |-> "none", hrefs |-> <<>>, soup |-> NoSoup]
  /\ found = 0 /\ skipped = 0 /\ failed = 0
  /\ out_results = <<>> /\ out_events = <<>>

\* as crawl_handler, without the "except Exception" clause
crawl_handler_http_only(exc) == IF exc = "HTTPError" THEN "Skip" ELSE "uncaught"

\* which except clause of the crawl loop handles exc
crawl_handler(exc) == IF exc = "HTTPError" THEN "Skip" ELSE "Error"

\* the except clause of the extraction loop (Exception catches all)
parse_handler(exc) == "Failed"

\* as crawl_finished, leaving the crawl after the first series
crawl_finished_first_series(s2) == s2 > 1

\* the crawl loops are exhausted when the series index runs off SERIES_MAP
crawl_finished(s2) == s2 > Len(SERIES_MAP)

\* next iteration of "for series_slug ...: for y in YEARS"; after the last
\* one the extraction loop evaluates sorted(all_links)
CrawlAdvance(links_after) ==
  LET s2 == IF y < Len(YEARS) THEN s ELSE s + 1
      y2 == IF y < Len(YEARS) THEN y + 1 ELSE 1
  IN  /\ s' = s2 /\ y' = y2
      /\ IF crawl_finished(s2)
         THEN /\ urls' = sorted(links_after)
              /\ pc' = IF links_after = {} THEN "write" ELSE "parse"
         ELSE /\ urls' = urls /\ pc' = "crawl"
      /\ i' = 1

\* lines 122-125: the listing page is fetched and its links collected
CrawlOk ==
  /\ pc = "crawl"
  /\ \E hrefs \in ListingPages :
       LET u == listing_url(YEARS[y], SERIES_MAP[s])
       IN  /\ requested' = Append(requested, u)
           /\ fetched' = [url |-> u, status |-> "ok", hrefs |-> hrefs, soup |-> NoSoup]
           /\ links' = list_year_races(hrefs)
           /\ all_links' = all_links \cup Range(list_year_races(hrefs))
           /\ found' = found + Len(list_year_races(hrefs))
           /\ slept' = TRUE
           /\ CrawlAdvance(all_links \cup Range(list_year_races(hrefs)))
  /\ UNCHANGED <<meta_rows, frames, printed, skipped, failed, out_results, out_events>>

\* lines 126-130: get_soup raised; the handler prints and the loop goes on
CrawlRaise ==
  /\ pc = "crawl"
  /\ \E exc \in Exceptions :
       LET u == listing_url(YEARS[y], SERIES_MAP[s])
       IN  /\ requested' = Append(requested, u)
           /\ fetched' = [url |-> u, status |-> exc, hrefs |-> <<>>, soup |-> NoSoup]
           /\ IF crawl_handler(exc) \in {"Skip", "Error"}
              THEN /\ printed' = <<crawl_handler(exc), YEARS[y], SERIES_MAP[s]>>
                   /\ skipped' = skipped + 1
                   /\ CrawlAdvance(all_links)
              ELSE /\ pc' = "aborted"
                   /\ UNCHANGED <<printed, skipped, s, y, urls, i>>
  /\ slept' = FALSE
  /\ UNCHANGED <<all_links, links, meta_rows, frames, found, failed, out_results, out_events>>

\* as next_index, staying on the same URL (a retry)
next_index_retry(k) == k

\* position of the extraction loop after the iteration at position k
next_index(k) == k + 1

ParseAdvance ==
  /\ i' = next_index(i)
  /\ pc' = IF next_index(i) > Len(urls) THEN "write" ELSE "parse"

\* as extend_meta, without the "if df is not None" guard
extend_meta_unguarded(ms, r) == Append(ms, r.meta)

\* lines 141-142: "if df is not None: meta_rows.append(meta)"
extend_meta(ms, r) == IF r.kind = "frame" THEN Append(ms, r.meta) ELSE ms

\* lines 141, 143: "if df is not None: frames.append(df)"
extend_frames(fs, r) ==
  IF r.kind = "frame" THEN Append(fs, [columns |-> r.df.columns, rows |-> r.df.rows]) ELSE fs

\* lines 139-145: parse_result_page returned; tables is what pd.read_html
\* gave (the tables of the page; for a page without tables the empty list)
ParseReturn ==
  /\ pc = "parse"
  /\ \E soup \in ResultPages :
       LET r == parse_result_page(urls[i], soup, soup.tables)
       IN  /\ r.kind # "raise"
           /\ requested' = Append(requested, urls[i])
           /\ fetched' = [url |-> urls[i], status |-> "ok", hrefs |-> <<>>, soup |-> soup]
           /\ meta_rows' = extend_meta(meta_rows, r)
           /\ frames' = extend_frames(frames, r)
           /\ printed' = IF r.kind = "frame"
                         THEN <<"progress", i, Cardinality(all_links), urls[i], Len(r.df.rows)>>
                         ELSE printed
  /\ slept' = TRUE
  /\ ParseAdvance
  /\ UNCHANGED <<s, y, all_links, links, urls, found, skipped, failed, out_results, out_events>>

\* lines 146-147: an exception out of parse_result_page: get_soup raised,
\* pd.read_html raised ValueError (no tables found), or df.insert raised
\* ValueError (the column exists)
ParseRaise ==
  /\ pc = "parse"
  /\ \E exc \in Exceptions \cup {"ValueError"} :
       /\ IF exc \in Exceptions
          THEN fetched' = [url |-> urls[i], status |-> exc, hrefs |-> <<>>, soup |-> NoSoup]
          ELSE \E soup \in ResultPages :
                 /\ \/ soup.tables = <<>>
                    \/ parse_result_page(urls[i], soup, soup.tables).kind = "raise"
                 /\ fetched' = [url |-> urls[i], status |-> "ok", hrefs |-> <<>>, soup |-> soup]
       /\ IF parse_handler(exc) = "Failed"
          THEN /\ printed' = <<"Failed", urls[i]>>
               /\ failed' = failed + 1
               /\ ParseAdvance
          ELSE /\ pc' = "aborted"
               /\ UNCHANGED <<printed, failed, i>>
  /\ requested' = Append(requested, urls[i])
  /\ slept' = FALSE
  /\ UNCHANGED <<s, y, all_links, links, urls, meta_rows, frames, found, skipped,
                 out_results, out_events>>

\* lines 149-156: the two files are written when their lists are non-empty
WriteOutputs ==
  /\ pc = "write"
  /\ out_results' = IF frames # <<>> THEN <<concat(frames)>> ELSE out_results
  /\ out_events' = IF meta_rows # <<>> THEN <<events_frame(meta_rows)>> ELSE out_events
  /\ printed' = IF meta_rows # <<>> THEN <<"Saved events", Len(meta_rows)>>
                ELSE IF frames # <<>> THEN <<"Saved results", Len(concat(frames).rows)>>
                ELSE printed
  /\ pc' = "done"
  /\ UNCHANGED <<s, y, all_links, links, urls, i, meta_rows, frames, requested, slept,
                 fetched, found, skipped, failed>>

Next == CrawlOk \/ CrawlRaise \/ ParseReturn \/ ParseRaise \/ WriteOutputs

Spec == Init /\ [][Next]_vars

(***************************************************************************)
(* Properties                                                              *)
(***************************************************************************)
\* the listing URLs of SERIES_MAP x YEARS
ListingUrls == {listing_url(YEARS[b], SERIES_MAP[a]) : a \in 1..Len(SERIES_MAP), b \in 1..Len(YEARS)}

\* C1 (skip-and-continue): a failed listing fetch or a failed result page
\* never aborts the run; once the crawl is over every (year, series) listing
\* has been requested, once the extraction is over every discovered link has
\* been requested, nothing gathered is ever dropped, and what was gathered
\* is what the two files hold at the end.
C1_SkipAndContinue ==
  /\ [](pc # "aborted")
  /\ [](pc \in {"parse", "write", "done"} => ListingUrls \subseteq Range(requested))
  /\ [](pc \in {"write", "done"} => all_links \subseteq Range(requested))
  /\ [](pc = "done" =>
          /\ frames # <<>> => out_results = <<concat(frames)>>
          /\ meta_rows # <<>> => out_events = <<events_frame(meta_rows)>>
          /\ \A k \in 1..Len(frames) : \A r \in 1..Len(frames[k].rows) :
               \E q \in 1..Len(out_results[1].rows) :
                 SubSeq(out_results[1].rows[q], 1, 6) = SubSeq(frames[k].rows[r], 1, 6))
  /\ [][/\ all_links \subseteq all_links'
        /\ Len(frames) <= Len(frames') /\ SubSeq(frames', 1, Len(frames)) = frames
        /\ Len(meta_rows) <= Len(meta_rows') /\ SubSeq(meta_rows', 1, Len(meta_rows)) = meta_rows
        /\ (fetched'.status = "ok" /\ fetched'.url \in ListingUrls /\ fetched' # fetched)
              => Range(list_year_races(fetched'.hrefs)) \subseteq all_links']_vars

\* C1 witness: a finished run in which a listing fetch and a result page
\* both failed and both files were still written.
C1_Witness ==
  /\ pc = "done" /\ skipped >= 1 /\ failed >= 1
  /\ out_results # <<>> /\ out_events # <<>>
  /\ Len(frames) >= 2

\* C2 (link discovery is complete): every href of a fetched listing page
\* whose target contains /YYYY-MM-DD/ is returned as an absolute URL,
\* whatever the form of the href; the target of an href that is neither
\* site-relative nor absolute is the href joined to the directory of the page.
C2_EveryDatedLinkReturned ==
  (pc = "crawl" /\ fetched.status = "ok") =>
     \A k \in 1..Len(fetched.hrefs) :
        LET href == fetched.hrefs[k]
            dir  == SubSeq(fetched.url, 1, Len(fetched.url) - 5)
            target == IF href = <<>> THEN fetched.url
                      ELSE IF StartsWith(href, <<"/">>) THEN BASE \o href
                      ELSE IF StartsWith(href, <<"h","t","t","p">>) THEN href
                      ELSE dir \o href
        IN  DateSearch(target) => target \in Range(links)

\* C3 (season year): the rows of a page whose URL is BASE followed by
\* /YYYY-MM-DD/<class>/<venue> carry the integer YYYY in column "year".
C3_YearIsSeasonYear ==
  \A k \in 1..Len(frames) : \A r \in 1..Len(frames[k].rows) :
     LET url == frames[k].rows[r][1]
     IN  (StartsWith(url, BASE) /\ DateAt(url, Len(BASE) + 1) /\ venue_slug(url) # <<>>)
           => /\ frames[k].columns[6] = <<"y","e","a","r">>
              /\ frames[k].rows[r][6] = <<ToInt(SubSeq(url, Len(BASE) + 2, Len(BASE) + 5))>>

\* C4 (metadata prefixing): a result page that was fetched and holds at
\* least one table has just contributed its first table, with the six
\* metadata columns in front of the (stripped) columns of the table and the
\* same metadata values in front of every row, whatever the columns are.
C4_FirstTableContributed ==
  (pc \in {"parse", "write"} /\ fetched.status = "ok" /\ fetched.url \in all_links
     /\ fetched.soup.tables # <<>>) =>
     /\ frames # <<>>
     /\ LET f == frames[Len(frames)]
            t == fetched.soup.tables[1]
        IN  /\ SubSeq(f.columns, 1, 6) =
                 << <<"e","v","e","n","t","_","u","r","l">>, <<"t","i","t","l","e">>, <<"d","a","t","e">>, <<"c","l","a","s","s">>, <<"v","e","n","u","e">>, <<"y","e","a","r">> >>
            /\ SubSeq(f.columns, 7, Len(f.columns)) = [c \in 1..Len(t.columns) |-> Strip(t.columns[c])]
            /\ Len(f.rows) = Len(t.rows)
            /\ \A r \in 1..Len(f.rows) :
                 /\ f.rows[r][1] = fetched.url
                 /\ SubSeq(f.rows[r], 1, 6) = SubSeq(f.rows[1], 1, 6)
                 /\ SubSeq(f.rows[r], 7, Len(f.rows[r])) = t.rows[r]

\* C5 (politeness delay): whenever a request is issued after an earlier
\* request, the 0.5 second sleep ran in between, also when the earlier
\* request failed.
C5_DelayBetweenRequests ==
  [][(Len(requested') > Len(requested) /\ requested # <<>>) => slept]_vars

\* C6 (two sequential stages): every request of a result page comes after
\* the requests of all listing pages, and once the extraction has started
\* the links to process never change and no listing page is requested.
C6_TwoStages ==
  /\ [](\A k \in 1..Len(requested) :
          requested[k] \notin ListingUrls
             => ListingUrls \subseteq Range(SubSeq(requested, 1, k - 1)))
  /\ [][(pc \in {"parse", "write", "done"}) =>
          (/\ all_links' = all_links
           /\ urls' = urls
           /\ pc' # "crawl"
           /\ \A k \in (Len(requested) + 1)..Len(requested') : requested'[k] \notin ListingUrls)]_vars

\* C6 witness: the extraction has processed pages and has more to process.
C6_Witness ==
  /\ pc = "parse" /\ i >= 3 /\ Len(frames) >= 1 /\ failed >= 1
  /\ Len(urls) >= 3

\* C7 (at most once): no URL is requested twice; at the end every listing
\* page and every discovered URL has been requested exactly once, although
\* the same link was returned by several listing pages and some requests
\* failed; no URL has two event rows or two blocks of result rows.
C7_AtMostOnce ==
  /\ \A j, k \in 1..Len(requested) : j # k => requested[j] # requested[k]
  /\ pc \in {"write", "done"} => Range(requested) = ListingUrls \cup all_links
  /\ \A j, k \in 1..Len(meta_rows) : j # k => meta_rows[j].url # meta_rows[k].url
  /\ \A j, k \in 1..Len(frames) : \A a \in 1..Len(frames[j].rows) : \A b \in 1..Len(frames[k].rows) :
        j # k => frames[j].rows[a][1] # frames[k].rows[b][1]

\* C7 witness: a finished run in which list_year_races returned more links
\* than there are distinct URLs, and a listing and a page failed.
C7_Witness ==
  /\ pc = "done" /\ found > Cardinality(all_links) /\ Cardinality(all_links) >= 3
  /\ skipped >= 1 /\ failed >= 1
  /\ Len(requested) = Cardinality(ListingUrls) + Cardinality(all_links)

\* C8 (class and venue inference): for every page that was extracted, whose
\* URL has a path segment after the date segment, "class" is that segment
\* lower-cased, "venue" is the last path segment with '-' replaced by ' '
\* and title-cased, and neither is empty.
C8_ClassAndVenue ==
  \A k \in 1..Len(meta_rows) :
     LET url  == meta_rows[k].url
         d    == CHOOSE x \in DatePositions(url) : \A z \in DatePositions(url) : x <= z
         seg  == SubSeq(url, d + 12, SegmentEnd(url, d + 12) - 1)
         end  == IF url[Len(url)] = "/" THEN Len(url) - 1 ELSE Len(url)
         cut  == CHOOSE x \in 1..end : url[x] = "/" /\ \A z \in (x+1)..end : url[z] # "/"
         last == SubSeq(url, cut + 1, end)
     IN  seg # <<>> =>
           /\ meta_rows[k].class = Lower(seg)
           /\ meta_rows[k].venue = Title(Replace(last, "-", " "))
           /\ meta_rows[k].class # <<>>
           /\ meta_rows[k].venue # <<>>

\* C9 as stated (lockstep, and one event row per page that contributed
\* rows): meta_rows and frames have the same length, the k-th meta row has
\* the URL of the k-th frame, a page that yields no table or raises adds to
\* neither list, each file is written exactly when a page was extracted, and
\* the events file has exactly one row for each URL that has rows in the
\* results file.
C9_OneEventPerContributingPage ==
  /\ [](/\ Len(meta_rows) = Len(frames)
        /\ \A k \in 1..Len(frames) :
              /\ k <= Len(meta_rows)
              /\ frames[k].columns[1] = <<"e","v","e","n","t","_","u","r","l">>
              /\ \A r \in 1..Len(frames[k].rows) : frames[k].rows[r][1] = meta_rows[k].url)
  /\ [][IF /\ pc = "parse" /\ Len(requested') > Len(requested)
           /\ fetched'.status = "ok" /\ fetched'.soup.tables # <<>> /\ failed' = failed
        THEN /\ Len(frames') = Len(frames) + 1
             /\ Len(meta_rows') = Len(meta_rows) + 1
             /\ meta_rows'[Len(meta_rows')].url = fetched'.url
        ELSE frames' = frames /\ meta_rows' = meta_rows]_vars
  /\ [](pc = "done" =>
          /\ (out_results # <<>>) <=> (frames # <<>>)
          /\ (out_events # <<>>) <=> (frames # <<>>)
          /\ out_events # <<>> =>
               /\ {out_events[1].rows[q][1] : q \in 1..Len(out_events[1].rows)}
                    = {out_results[1].rows[q][1] : q \in 1..Len(out_results[1].rows)}
               /\ Len(out_events[1].rows)
                    = Cardinality({out_results[1].rows[q][1] : q \in 1..Len(out_results[1].rows)}))

\* C9 as amended (lockstep, and one event row per extracted page): as
\* above, but the events file has exactly one row per frame, in the order of
\* the frames; the URLs that have rows in the results file are those of the
\* frames that have rows, so that a page whose first table has no rows has
\* an event row and no result rows.
C9_Lockstep ==
  /\ [](/\ Len(meta_rows) = Len(frames)
        /\ \A k \in 1..Len(frames) :
              /\ k <= Len(meta_rows)
              /\ frames[k].columns[1] = <<"e","v","e","n","t","_","u","r","l">>
              /\ \A r \in 1..Len(frames[k].rows) : frames[k].rows[r][1] = meta_rows[k].url)
  /\ [][IF /\ pc = "parse" /\ Len(requested') > Len(requested)
           /\ fetched'.status = "ok" /\ fetched'.soup.tables # <<>> /\ failed' = failed
        THEN /\ Len(frames') = Len(frames) + 1
             /\ Len(meta_rows') = Len(meta_rows) + 1
             /\ meta_rows'[Len(meta_rows')].url = fetched'.url
        ELSE frames' = frames /\ meta_rows' = meta_rows]_vars
  /\ [](pc = "done" =>
          /\ (out_results # <<>>) <=> (frames # <<>>)
          /\ (out_events # <<>>) <=> (frames # <<>>)
          /\ out_events # <<>> =>
               /\ Len(out_events[1].rows) = Len(frames)
               /\ \A k \in 1..Len(frames) : out_events[1].rows[k][1] = meta_rows[k].url
               /\ {out_results[1].rows[q][1] : q \in 1..Len(out_results[1].rows)}
                    = {meta_rows[k].url : k \in {x \in 1..Len(frames) : frames[x].rows # <<>>}})

\* C9 witness: a finished run over four links in which one page raised, one
\* returned (None, None), one gave a table with rows and one a table
\* without rows.
C9_Witness ==
  /\ pc = "done" /\ Len(urls) = 4 /\ failed = 1 /\ Len(frames) = 2
  /\ \E j, k \in 1..Len(frames) : frames[j].rows = <<>> /\ frames[k].rows # <<>>
  /\ out_events # <<>> /\ out_results # <<>>

\* C10 (order): the pages are requested, and their event records and frames
\* appended, in strictly ascending order of URL; the list processed is the
\* ascending list of all discovered links; the rows of the events file are
\* strictly ascending by URL, and the results file holds the rows of the
\* pages in ascending order of URL, the rows of one page in table order.
C10_AscendingOrder ==
  /\ \A j, k \in 1..Len(urls) : j < k => StrLess(urls[j], urls[k])
  /\ pc \in {"parse", "write", "done"} => Range(urls) = all_links /\ Len(urls) = Cardinality(all_links)
  /\ pc \in {"parse", "write", "done"} =>
        SubSeq(requested, Cardinality(ListingUrls) + 1, Len(requested)) = SubSeq(urls, 1, i - 1)
  /\ \A j, k \in 1..Len(meta_rows) : j < k => StrLess(meta_rows[j].url, meta_rows[k].url)
  /\ \A j, k \in 1..Len(frames) : \A a \in 1..Len(frames[j].rows) : \A b \in 1..Len(frames[k].rows) :
        j < k => StrLess(frames[j].rows[a][1], frames[k].rows[b][1])
  /\ pc = "done" /\ out_events # <<>> =>
        \A j, k \in 1..Len(out_events[1].rows) :
           j < k => StrLess(out_events[1].rows[j][1], out_events[1].rows[k][1])
  /\ pc = "done" /\ out_results # <<>> =>
        LET res == out_results[1]
            col(c) == CHOOSE x \in 1..Len(res.columns) : res.columns[x] = c
        IN  /\ \A j, k \in 1..Len(res.rows) :
                 j < k => res.rows[j][1] = res.rows[k][1] \/ StrLess(res.rows[j][1], res.rows[k][1])
            /\ \A k \in 1..Len(frames) :
                 LET mine == SelectSeq(res.rows, LAMBDA row : row[1] = meta_rows[k].url)
                 IN  /\ Len(mine) = Len(frames[k].rows)
                     /\ \A r \in 1..Len(mine) : \A c \in 1..Len(frames[k].columns) :
                          mine[r][col(frames[k].columns[c])] = frames[k].rows[r][c]

\* C10 witness: a finished run with three extracted pages, two of them with
\* rows in the results file, the absolute link having been discovered before
\* a link that sorts before it.
C10_Witness ==
  /\ pc = "done" /\ Len(meta_rows) >= 3
  /\ BASE \o HrefEvent \in all_links /\ HrefAbs \in all_links
  /\ out_results # <<>>
  /\ \E j, k \in 1..Len(frames) : j # k /\ Len(frames[j].rows) >= 2 /\ frames[k].rows # <<>>
====
